---- MODULE Spec2Model ----
(***************************************************************************)
(* JSON -> Variant front-end of arrow-variant (encoder/json.rs):           *)
(* json_to_variant, encode_json_value / _array_element / _object_field and *)
(* the streaming JsonParser (new, push, try_parse, finish).                *)
(*                                                                         *)
(* Text is a sequence of one-character strings.  serde_json::from_slice is *)
(* modelled byte by byte for the characters of Alphabet, with its error    *)
(* categories (end of input vs. syntax).  The builder and the reader live  *)
(* in crate::builder / crate::Variant and are modelled from their          *)
(* documented contract.                                                    *)
(***************************************************************************)
EXTENDS Integers, Sequences, FiniteSets, TLC

\* ------------------------------------------------------------------ bounds
\* Inputs are all byte strings over RawAlphabet of at most MaxRaw bytes, and
\* the texts of the documents of Documents, nested at most MaxDepth deep.
MaxRaw == 3
MaxDepth == 2
\* Builds made one after another on one metadata sink: at most MaxBuilds
\* before the one under way.
MaxBuilds == 2

\* ---------------------------------------------------------------- alphabet
\* The bytes the JSON reader is modelled for, in ascending byte order.
ByteOrder == <<" ", "\"", ",", "-", ".", "0", "1", "2", "3", "4", "5", "6", "7", "8", "9",
               ":", "[", "]", "a", "b", "e", "f", "l", "n", "r", "s", "t", "u", "{", "}">>
DigitChars == <<"0", "1", "2", "3", "4", "5", "6", "7", "8", "9">>
Digits == {DigitChars[k] : k \in 1..10}

DigitVal(c) == (CHOOSE k \in 1..10 : DigitChars[k] = c) - 1
ByteCode(c) == CHOOSE k \in 1..Len(ByteOrder) : ByteOrder[k] = c

\* ----------------------------------------------------------- wide naturals
\* A u64 / i64 magnitude: the decimal digits, the most significant first, with
\* no leading zero (zero is <<0>>).
RECURSIVE Wide(_)
Wide(n) == IF n < 10 THEN <<n>> ELSE Append(Wide(n \div 10), n % 10)

WideLeq(a, b) ==
    \/ Len(a) < Len(b)
    \/ /\ Len(a) = Len(b)
       /\ \/ a = b
          \/ \E k \in 1..Len(a) : SubSeq(a, 1, k - 1) = SubSeq(b, 1, k - 1) /\ a[k] < b[k]

\* a * 10 + d
Times10Plus(a, d) == IF a = <<0>> THEN <<d>> ELSE Append(a, d)

\* u64::MAX, i64::MAX and the magnitude of i64::MIN
U64Max == <<1, 8, 4, 4, 6, 7, 4, 4, 0, 7, 3, 7, 0, 9, 5, 5, 1, 6, 1, 5>>
I64Max == <<9, 2, 2, 3, 3, 7, 2, 0, 3, 6, 8, 5, 4, 7, 7, 5, 8, 0, 7>>
I64MinMagnitude == <<9, 2, 2, 3, 3, 7, 2, 0, 3, 6, 8, 5, 4, 7, 7, 5, 8, 0, 8>>

\* ------------------------------------------------------- serde_json::Value
VNull == [t |-> "null"]
VBool(b) == [t |-> "bool", b |-> b]
\* Number: N::PosInt (a u64) / N::NegInt (a negative i64) hold an integer,
\* sign and magnitude; N::Float a double.  A double is named by the decimal
\* sig * 10^exp it was made from, normalised (sig has no trailing zero).
VIntWide(neg, mag) == [t |-> "int", neg |-> neg, mag |-> mag]
VFloatWide(neg, sig, exp) == [t |-> "float", neg |-> neg, sig |-> sig, exp |-> exp]
VInt(n) == VIntWide(n < 0, Wide(IF n < 0 THEN 0 - n ELSE n))
VFloat(neg, sig, exp) == VFloatWide(neg, Wide(sig), exp)
VString(s) == [t |-> "str", s |-> s]
VArray(elems) == [t |-> "arr", e |-> elems]
\* Object: the entries of the Map in its iteration order.
VObject(fields) == [t |-> "obj", f |-> fields]

\* ------------------------------------------------------------ parse results
POk(i, v) == [k |-> "ok", i |-> i, v |-> v]
\* ErrorCode::EofWhileParsing{List,Object,String,Value}: Category::Eof
PEof(i) == [k |-> "eof", i |-> i]
\* every other ErrorCode the parser can raise here: Category::Syntax
PSyn(i) == [k |-> "syn", i |-> i]

\* peek_or_null: the byte at i, or a sentinel past the end
Peek(s, i) == IF i <= Len(s) THEN s[i] ELSE "EOF"

RECURSIVE ParseWhitespace(_, _)
ParseWhitespace(s, i) ==
    IF i <= Len(s) /\ s[i] = " " THEN ParseWhitespace(s, i + 1) ELSE i

\* index just past the run of digits starting at i
RECURSIVE DigitsEnd(_, _)
DigitsEnd(s, i) ==
    IF i <= Len(s) /\ s[i] \in Digits THEN DigitsEnd(s, i + 1) ELSE i

\* value of the digits s[i..j-1] appended to acc
RECURSIVE DigitsValue(_, _, _, _)
DigitsValue(s, i, j, acc) ==
    IF i >= j THEN acc ELSE DigitsValue(s, i + 1, j, acc * 10 + DigitVal(s[i]))

\* significand = significand * 10 + digit over the digits from i on, up to the
\* first digit with which it would pass u64::MAX
RECURSIVE Accumulate(_, _, _)
Accumulate(s, i, sig) ==
    IF i <= Len(s) /\ s[i] \in Digits /\ WideLeq(Times10Plus(sig, DigitVal(s[i])), U64Max)
    THEN Accumulate(s, i + 1, Times10Plus(sig, DigitVal(s[i])))
    ELSE [sig |-> sig, i |-> i]

RECURSIVE Normalise(_, _, _)
Normalise(neg, sig, exp) ==
    IF sig = <<0>> THEN VFloatWide(neg, <<0>>, 0)
    ELSE IF sig[Len(sig)] = 0 THEN Normalise(neg, SubSeq(sig, 1, Len(sig) - 1), exp + 1)
    ELSE VFloatWide(neg, sig, exp)

\* f64_from_parts: significand * 10^exponent as a double; infinite is
\* NumberOutOfRange, below the smallest subnormal is (signed) zero.
F64FromParts(i, positive, sig, exp) ==
    IF sig # <<0>> /\ exp + Len(sig) - 1 > 308 THEN PSyn(i)
    ELSE IF sig # <<0>> /\ exp + Len(sig) - 1 < 0 - 324 THEN POk(i, VFloatWide(~positive, <<0>>, 0))
    ELSE POk(i, Normalise(~positive, sig, exp))

\* parse_exponent: s[i] is 'e'
ParseExponent(s, i, positive, sig, startExp) ==
    LET neg == Peek(s, i + 1) = "-"
        d == IF neg THEN i + 2 ELSE i + 1
        j == DigitsEnd(s, d)
        exp == DigitsValue(s, d, j, 0)
    IN  IF d > Len(s) THEN PEof(d)
        ELSE IF s[d] \notin Digits THEN PSyn(d)
        ELSE F64FromParts(j, positive, sig, IF neg THEN startExp - exp ELSE startExp + exp)

\* parse_decimal: s[i] is '.'; the digits after it that no longer fit the
\* significand are skipped (parse_decimal_overflow)
ParseDecimal(s, i, positive, sig, exponent) ==
    LET a == Accumulate(s, i + 1, sig)
        j == DigitsEnd(s, a.i)
        exp == exponent - (a.i - (i + 1))
    IN  IF j = i + 1
        THEN (IF j > Len(s) THEN PEof(j) ELSE PSyn(j))
        ELSE IF Peek(s, j) = "e" THEN ParseExponent(s, j, positive, a.sig, exp)
        ELSE F64FromParts(j, positive, a.sig, exp)

\* parse_number: what follows the integer part
ParseNumber(s, i, positive, sig) ==
    CASE Peek(s, i) = "." -> ParseDecimal(s, i, positive, sig, 0)
      [] Peek(s, i) = "e" -> ParseExponent(s, i, positive, sig, 0)
      [] OTHER ->
            IF positive THEN POk(i, VIntWide(FALSE, sig))
            \* (significand as i64).wrapping_neg() >= 0: "-0", or below i64::MIN
            ELSE IF sig = <<0>> \/ ~WideLeq(sig, I64MinMagnitude)
            THEN POk(i, Normalise(TRUE, sig, 0))
            ELSE POk(i, VIntWide(TRUE, sig))

\* parse_long_integer: s[i] is the first digit that did not fit the u64
ParseLongInteger(s, i, positive, sig) ==
    LET j == DigitsEnd(s, i)
    IN  CASE Peek(s, j) = "." -> ParseDecimal(s, j, positive, sig, j - i)
          [] Peek(s, j) = "e" -> ParseExponent(s, j, positive, sig, j - i)
          [] OTHER -> F64FromParts(j, positive, sig, j - i)

\* parse_integer: s[i] is the first byte after an optional '-'
ParseInteger(s, i, positive) ==
    IF i > Len(s) THEN PEof(i)
    ELSE IF s[i] = "0"
    THEN (IF Peek(s, i + 1) \in Digits THEN PSyn(i + 1)
          ELSE ParseNumber(s, i + 1, positive, <<0>>))
    ELSE IF s[i] \in Digits
    THEN LET a == Accumulate(s, i, <<0>>)
         IN  IF Peek(s, a.i) \in Digits THEN ParseLongInteger(s, a.i, positive, a.sig)
             ELSE ParseNumber(s, a.i, positive, a.sig)
    ELSE PSyn(i)

\* index of the closing quote of the string whose content starts at i, or
\* Len(s) + 1 when the input ends first
RECURSIVE QuoteEnd(_, _)
QuoteEnd(s, i) ==
    IF i > Len(s) THEN i ELSE IF s[i] = "\"" THEN i ELSE QuoteEnd(s, i + 1)

\* parse_str: s[i - 1] is the opening quote
ParseStr(s, i) ==
    LET j == QuoteEnd(s, i)
    IN  IF j > Len(s) THEN PEof(j) ELSE POk(j + 1, SubSeq(s, i, j - 1))

\* parse_ident: the bytes of a literal after its first one
RECURSIVE ParseIdent(_, _, _, _)
ParseIdent(s, i, ident, v) ==
    IF ident = <<>> THEN POk(i, v)
    ELSE IF i > Len(s) THEN PEof(i)
    ELSE IF s[i] # Head(ident) THEN PSyn(i)
    ELSE ParseIdent(s, i + 1, Tail(ident), v)

\* String's Ord: byte-wise lexicographic
RECURSIVE StrLess(_, _)
StrLess(a, b) ==
    IF b = <<>> THEN FALSE
    ELSE IF a = <<>> THEN TRUE
    ELSE IF Head(a) # Head(b) THEN ByteCode(Head(a)) < ByteCode(Head(b))
    ELSE StrLess(Tail(a), Tail(b))

\* Map::insert.  A key already present keeps its place and gets the new value.
\* A new key goes to the end with feature preserve_order (IndexMap) and to its
\* sorted place without it (BTreeMap).
MapInsert(po, fields, key, val) ==
    IF \E n \in 1..Len(fields) : fields[n].k = key
    THEN [n \in 1..Len(fields) |->
            IF fields[n].k = key THEN [k |-> key, v |-> val] ELSE fields[n]]
    ELSE IF po THEN Append(fields, [k |-> key, v |-> val])
    ELSE LET lo == SelectSeq(fields, LAMBDA e : StrLess(e.k, key))
             hi == SelectSeq(fields, LAMBDA e : StrLess(key, e.k))
         IN  lo \o <<[k |-> key, v |-> val]>> \o hi

RECURSIVE ParseValue(_, _, _), ParseSeq(_, _, _, _, _), ParseMap(_, _, _, _, _)

\* Deserializer::deserialize_any driving Value's visitor; po: preserve_order
ParseValue(po, s, i) ==
    LET j == ParseWhitespace(s, i)
        c == Peek(s, j)
    IN  CASE j > Len(s) -> PEof(j)
          [] c = "n" -> ParseIdent(s, j + 1, <<"u", "l", "l">>, VNull)
          [] c = "t" -> ParseIdent(s, j + 1, <<"r", "u", "e">>, VBool(TRUE))
          [] c = "f" -> ParseIdent(s, j + 1, <<"a", "l", "s", "e">>, VBool(FALSE))
          [] c = "-" -> ParseInteger(s, j + 1, FALSE)
          [] c \in Digits -> ParseInteger(s, j, TRUE)
          [] c = "\"" -> LET r == ParseStr(s, j + 1)
                         IN  IF r.k = "ok" THEN POk(r.i, VString(r.v)) ELSE r
          [] c = "[" -> ParseSeq(po, s, j + 1, TRUE, <<>>)
          [] c = "{" -> ParseMap(po, s, j + 1, TRUE, <<>>)
          [] OTHER -> PSyn(j)

\* SeqAccess::next_element_seed in visit_seq's loop, then end_seq
ParseSeq(po, s, i, first, acc) ==
    LET j == ParseWhitespace(s, i)
        c == Peek(s, j)
        k == ParseWhitespace(s, j + 1)
        Element(at) ==
            LET r == ParseValue(po, s, at)
            IN  IF r.k = "ok" THEN ParseSeq(po, s, r.i, FALSE, Append(acc, r.v)) ELSE r
    IN  IF j > Len(s) THEN PEof(j)
        ELSE IF c = "]" THEN POk(j + 1, VArray(acc))
        ELSE IF c = "," /\ ~first
        THEN (IF k > Len(s) THEN PEof(k)
              ELSE IF s[k] = "]" THEN PSyn(k)
              ELSE Element(k))
        ELSE IF first THEN Element(j)
        ELSE PSyn(j)

\* MapAccess::next_key_seed / next_value_seed in visit_map's loop, then end_map
ParseMap(po, s, i, first, acc) ==
    LET j == ParseWhitespace(s, i)
        c == Peek(s, j)
        k == ParseWhitespace(s, j + 1)
        Entry(at) ==
            LET key == ParseStr(s, at + 1)
                colon == ParseWhitespace(s, key.i)
                val == ParseValue(po, s, colon + 1)
            IN  IF s[at] = "}" THEN PSyn(at)
                ELSE IF s[at] # "\"" THEN PSyn(at)
                ELSE IF key.k # "ok" THEN key
                ELSE IF colon > Len(s) THEN PEof(colon)
                ELSE IF s[colon] # ":" THEN PSyn(colon)
                ELSE IF val.k # "ok" THEN val
                ELSE ParseMap(po, s, val.i, FALSE, MapInsert(po, acc, key.v, val.v))
    IN  IF j > Len(s) THEN PEof(j)
        ELSE IF c = "}" THEN POk(j + 1, VObject(acc))
        ELSE IF c = "," /\ ~first
        THEN (IF k > Len(s) THEN PEof(k) ELSE Entry(k))
        ELSE IF first THEN Entry(j)
        ELSE PSyn(j)

\* Deserializer::end after the value r: only white space may follow
End(s, r) ==
    IF r.k # "ok" THEN r
    ELSE IF ParseWhitespace(s, r.i) <= Len(s) THEN PSyn(ParseWhitespace(s, r.i))
    ELSE r

\* serde_json::from_slice::<Value>: one value, then Deserializer::end
FromSlice(po, s) == End(s, ParseValue(po, s, 1))

\* Error::is_eof
IsEof(r) == r.k = "eof"

\* --------------------------------------------------------- builder operations
\* One call on a builder handle.  h: the handle the call is made on (0 is the
\* root VariantBuilder, n > 0 the n-th sub-builder opened on that root);
\* key: <<k>> for the object form, <<>> otherwise; arg: the value appended;
\* ret: the handle new_array / new_object returns (0 for the other calls).
NoArg == [t |-> "none"]
Op(name, h, key, arg, ret) == [op |-> name, h |-> h, key |-> key, arg |-> arg, ret |-> ret]

IsOpen(o) == o.op \in {"new_array", "new_object"}
IsAppend(o) == o.op \in {"append_null", "append_primitive", "append_value"}

\* the handle the next new_array / new_object returns
NextHandle(ops) == 1 + Cardinality({n \in 1..Len(ops) : IsOpen(ops[n])})

\* Number::is_i64 (PosInt <= i64::MAX or NegInt) and the value as_i64 /
\* as_f64 hand to the builder
IsI64(v) == v.t = "int" /\ (v.neg \/ WideLeq(v.mag, I64Max))
NumberArg(v) == IF IsI64(v) THEN v
                ELSE IF v.t = "int" THEN Normalise(FALSE, v.mag, 0)
                ELSE Normalise(v.neg, v.sig, v.exp)

RECURSIVE EncodeJsonArrayElement(_, _, _), EncodeJsonObjectField(_, _, _, _)
RECURSIVE ArrayLoop(_, _, _, _), ObjectLoop(_, _, _, _)

\* the loop over the elements stopping one short
ArrayLoopOneShort(ops, h, arr, n) ==
    IF n >= Len(arr) THEN ops
    ELSE ArrayLoop(EncodeJsonArrayElement(ops, h, arr[n]), h, arr, n + 1)

\* for elem in arr { encode_json_array_element(&mut b, elem)?; }
ArrayLoop(ops, h, arr, n) ==
    IF n > Len(arr) THEN ops
    ELSE ArrayLoop(EncodeJsonArrayElement(ops, h, arr[n]), h, arr, n + 1)

\* the loop over the fields left after the first field
ObjectLoopFirstOnly(ops, h, obj, n) ==
    IF n > Len(obj) \/ n > 1 THEN ops
    ELSE ObjectLoop(EncodeJsonObjectField(ops, h, obj[n].k, obj[n].v), h, obj, n + 1)

\* for (key, val) in obj { encode_json_object_field(&mut b, key, val)?; }
ObjectLoop(ops, h, obj, n) ==
    IF n > Len(obj) THEN ops
    ELSE ObjectLoop(EncodeJsonObjectField(ops, h, obj[n].k, obj[n].v), h, obj, n + 1)

\* encode_json_array_element leaving a nested array unfinished
EncodeJsonArrayElementUnfinished(ops, h, value) ==
    CASE value.t = "null" -> Append(ops, Op("append_null", h, <<>>, VNull, 0))
      [] value.t = "bool" -> Append(ops, Op("append_value", h, <<>>, value, 0))
      [] value.t \in {"int", "float"} ->
            Append(ops, Op("append_value", h, <<>>, NumberArg(value), 0))
      [] value.t = "str" -> Append(ops, Op("append_value", h, <<>>, value, 0))
      [] value.t = "arr" ->
            LET nested == NextHandle(ops)
                opened == Append(ops, Op("new_array", h, <<>>, NoArg, nested))
            IN  ArrayLoop(opened, nested, value.e, 1)
      [] value.t = "obj" ->
            LET nested == NextHandle(ops)
                opened == Append(ops, Op("new_object", h, <<>>, NoArg, nested))
            IN  Append(ObjectLoop(opened, nested, value.f, 1),
                       Op("finish", nested, <<>>, NoArg, 0))

\* encode_json_array_element
EncodeJsonArrayElement(ops, h, value) ==
    CASE value.t = "null" -> Append(ops, Op("append_null", h, <<>>, VNull, 0))
      [] value.t = "bool" -> Append(ops, Op("append_value", h, <<>>, value, 0))
      [] value.t \in {"int", "float"} ->
            Append(ops, Op("append_value", h, <<>>, NumberArg(value), 0))
      [] value.t = "str" -> Append(ops, Op("append_value", h, <<>>, value, 0))
      [] value.t = "arr" ->
            LET nested == NextHandle(ops)
                opened == Append(ops, Op("new_array", h, <<>>, NoArg, nested))
            IN  Append(ArrayLoop(opened, nested, value.e, 1),
                       Op("finish", nested, <<>>, NoArg, 0))
      [] value.t = "obj" ->
            LET nested == NextHandle(ops)
                opened == Append(ops, Op("new_object", h, <<>>, NoArg, nested))
            IN  Append(ObjectLoop(opened, nested, value.f, 1),
                       Op("finish", nested, <<>>, NoArg, 0))

\* encode_json_object_field handing every number over as a float
EncodeJsonObjectFieldAllFloat(ops, h, key, value) ==
    CASE value.t = "null" -> Append(ops, Op("append_null", h, <<key>>, VNull, 0))
      [] value.t = "bool" -> Append(ops, Op("append_value", h, <<key>>, value, 0))
      [] value.t = "int" ->
            Append(ops, Op("append_value", h, <<key>>,
                           Normalise(value.neg, value.mag, 0), 0))
      [] value.t = "float" -> Append(ops, Op("append_value", h, <<key>>, value, 0))
      [] value.t = "str" -> Append(ops, Op("append_value", h, <<key>>, value, 0))
      [] value.t = "arr" ->
            LET array == NextHandle(ops)
                opened == Append(ops, Op("new_array", h, <<key>>, NoArg, array))
            IN  Append(ArrayLoop(opened, array, value.e, 1),
                       Op("finish", array, <<>>, NoArg, 0))
      [] value.t = "obj" ->
            LET object == NextHandle(ops)
                opened == Append(ops, Op("new_object", h, <<key>>, NoArg, object))
            IN  Append(ObjectLoop(opened, object, value.f, 1),
                       Op("finish", object, <<>>, NoArg, 0))

\* encode_json_object_field
EncodeJsonObjectField(ops, h, key, value) ==
    CASE value.t = "null" -> Append(ops, Op("append_null", h, <<key>>, VNull, 0))
      [] value.t = "bool" -> Append(ops, Op("append_value", h, <<key>>, value, 0))
      [] value.t \in {"int", "float"} ->
            Append(ops, Op("append_value", h, <<key>>, NumberArg(value), 0))
      [] value.t = "str" -> Append(ops, Op("append_value", h, <<key>>, value, 0))
      [] value.t = "arr" ->
            LET array == NextHandle(ops)
                opened == Append(ops, Op("new_array", h, <<key>>, NoArg, array))
            IN  Append(ArrayLoop(opened, array, value.e, 1),
                       Op("finish", array, <<>>, NoArg, 0))
      [] value.t = "obj" ->
            LET object == NextHandle(ops)
                opened == Append(ops, Op("new_object", h, <<key>>, NoArg, object))
            IN  Append(ObjectLoop(opened, object, value.f, 1),
                       Op("finish", object, <<>>, NoArg, 0))

\* encode_json_value: the calls on the root builder
EncodeJsonValue(ops, value) ==
    CASE value.t = "null" -> Append(ops, Op("append_null", 0, <<>>, VNull, 0))
      [] value.t = "bool" -> Append(ops, Op("append_primitive", 0, <<>>, value, 0))
      [] value.t \in {"int", "float"} ->
            Append(ops, Op("append_primitive", 0, <<>>, NumberArg(value), 0))
      [] value.t = "str" -> Append(ops, Op("append_primitive", 0, <<>>, value, 0))
      [] value.t = "arr" ->
            LET array_builder == NextHandle(ops)
                opened == Append(ops, Op("new_array", 0, <<>>, NoArg, array_builder))
            IN  Append(ArrayLoop(opened, array_builder, value.e, 1),
                       Op("finish", array_builder, <<>>, NoArg, 0))
      [] value.t = "obj" ->
            LET object_builder == NextHandle(ops)
                opened == Append(ops, Op("new_object", 0, <<>>, NoArg, object_builder))
            IN  Append(ObjectLoop(opened, object_builder, value.f, 1),
                       Op("finish", object_builder, <<>>, NoArg, 0))

\* builder.finish() on the root VariantBuilder
RootFinish == Op("finish", 0, <<>>, NoArg, 0)

\* ------------------------------------------------- builder (crate::builder)
\* Buffers are sequences of integer cells.  Tags: 0 null, 1 true, 2 false,
\* 3 int, 4 float64, 5 string, 6 array, 7 object.
RECURSIVE Flatten(_)
Flatten(seqs) == IF seqs = <<>> THEN <<>> ELSE Head(seqs) \o Flatten(Tail(seqs))

Codes(str) == [n \in 1..Len(str) |-> ByteCode(str[n])]

EncodePrimitive(arg) ==
    CASE arg.t = "null" -> <<0>>
      [] arg.t = "bool" -> IF arg.b THEN <<1>> ELSE <<2>>
      [] arg.t = "int" -> <<3, IF arg.neg THEN 1 ELSE 0, Len(arg.mag)>> \o arg.mag
      [] arg.t = "float" -> <<4, IF arg.neg THEN 1 ELSE 0, arg.exp, Len(arg.sig)>> \o arg.sig
      [] arg.t = "str" -> <<5, Len(arg.s)>> \o Codes(arg.s)

\* offset table of the items' byte strings: count + 1 entries, the last one
\* the payload length
RECURSIVE OffsetTable(_, _)
OffsetTable(items, from) ==
    IF items = <<>> THEN <<from>>
    ELSE <<from>> \o OffsetTable(Tail(items), from + Len(Head(items).bytes))

Payload(items) == Flatten([n \in 1..Len(items) |-> items[n].bytes])

\* item indices ordered by ascending key id
RECURSIVE SortById(_, _)
SortById(items, left) ==
    IF left = {} THEN <<>>
    ELSE LET m == CHOOSE n \in left : \A o \in left : items[n].id <= items[o].id
         IN  <<m>> \o SortById(items, left \ {m})

\* array: tag, payload length, count, offsets, payload
ArrayBytes(items) ==
    <<6, Len(Payload(items)), Len(items)>> \o OffsetTable(items, 0) \o Payload(items)

\* object: tag, payload length, count, key ids ascending, the item each of
\* them belongs to, offsets in insertion order, payload
ObjectBytes(items) ==
    LET perm == SortById(items, 1..Len(items))
    IN  <<7, Len(Payload(items)), Len(items)>>
        \o [n \in 1..Len(perm) |-> items[perm[n]].id]
        \o perm
        \o OffsetTable(items, 0) \o Payload(items)

\* metadata: version, dictionary size, offsets into the heap, the heap
MetadataBytes(dict) ==
    LET strs == [n \in 1..Len(dict) |-> [bytes |-> Codes(dict[n])]]
    IN  <<1, Len(dict)>> \o OffsetTable(strs, 0) \o Payload(strs)

\* id of a field name (its insertion index, from 0), -1 when absent
DictId(dict, key) ==
    IF \E n \in 1..Len(dict) : dict[n] = key
    THEN (CHOOSE n \in 1..Len(dict) : dict[n] = key) - 1
    ELSE 0 - 1

Intern(dict, key) == IF DictId(dict, key) >= 0 THEN dict ELSE Append(dict, key)

\* VariantBuilder::new: empty dictionary, nothing written, no root value yet
BuilderNew == [stack |-> <<>>, dict |-> <<>>, nroot |-> 0, finished |-> FALSE,
               value_out |-> <<>>, meta_out |-> <<>>]

\* a finished value handed to the enclosing builder: the root writes it to the
\* value sink, a sub-builder keeps it as its next item
Deliver(b, id, bytes) ==
    IF b.stack = <<>>
    THEN [b EXCEPT !.value_out = @ \o bytes, !.nroot = @ + 1]
    ELSE [b EXCEPT !.stack[Len(b.stack)].items = Append(@, [id |-> id, bytes |-> bytes])]

\* One builder call.  A call outside the contract (a second root value, a call
\* on a handle that is not the innermost open one, a call after finish) is an
\* invalid-state call: the front-end drops what the call returns, so the only
\* effect of a refused call is none.  lenient: whether the root takes a
\* further value after its first (the contract leaves it open).
BuilderStep(lenient, b, o) ==
    LET top == IF b.stack = <<>> THEN 0 ELSE b.stack[Len(b.stack)].h
        keyed == o.key # <<>>
        dict2 == IF keyed THEN Intern(b.dict, o.key[1]) ELSE b.dict
        id == IF keyed THEN DictId(dict2, o.key[1]) ELSE 0
        b2 == [b EXCEPT !.dict = dict2]
        frame == b.stack[Len(b.stack)]
        below == [b EXCEPT !.stack = SubSeq(@, 1, Len(@) - 1)]
    IN  IF b.finished \/ o.h # top THEN b
        ELSE IF o.h = 0 /\ o.op = "finish"
        THEN [b EXCEPT !.finished = TRUE, !.meta_out = @ \o MetadataBytes(b.dict)]
        ELSE IF o.h = 0 /\ b.nroot >= 1 /\ ~lenient THEN b
        ELSE IF IsAppend(o) THEN Deliver(b2, id, EncodePrimitive(o.arg))
        ELSE IF IsOpen(o)
        THEN [b2 EXCEPT !.stack = Append(@, [h |-> o.ret, id |-> id, items |-> <<>>,
                    kind |-> IF o.op = "new_array" THEN "array" ELSE "object"])]
        ELSE Deliver(below, frame.id,
                     IF frame.kind = "array" THEN ArrayBytes(frame.items)
                     ELSE ObjectBytes(frame.items))

RECURSIVE BuilderRun(_, _, _)
BuilderRun(lenient, b, ops) ==
    IF ops = <<>> THEN b
    ELSE BuilderRun(lenient, BuilderStep(lenient, b, Head(ops)), Tail(ops))

\* --------------------------------------------------- reader (crate::Variant)
\* the dictionary held by a metadata buffer
DictOf(meta) ==
    LET count == meta[2]
        heap == 3 + count
    IN  [n \in 1..count |->
            [j \in 1..(meta[3 + n] - meta[2 + n]) |-> ByteOrder[meta[heap + meta[2 + n] + j]]]]

\* Variant::new(metadata, value) read back as a tree from the value at cell at:
\* scalars through their typed accessors, array elements through get_index,
\* object fields through the key table and the dictionary, listed in insertion
\* order.
RECURSIVE ReadValue(_, _, _)
ReadValue(dict, buf, at) ==
    LET tag == buf[at]
        count == buf[at + 2]
    IN  CASE tag = 0 -> VNull
          [] tag = 1 -> VBool(TRUE)
          [] tag = 2 -> VBool(FALSE)
          [] tag = 3 -> VIntWide(buf[at + 1] = 1, [j \in 1..buf[at + 2] |-> buf[at + 2 + j]])
          [] tag = 4 -> VFloatWide(buf[at + 1] = 1, [j \in 1..buf[at + 3] |-> buf[at + 3 + j]],
                                   buf[at + 2])
          [] tag = 5 -> VString([j \in 1..buf[at + 1] |-> ByteOrder[buf[at + 1 + j]]])
          [] tag = 6 ->
                LET base == at + 4 + count
                IN  VArray([m \in 1..count |-> ReadValue(dict, buf, base + buf[at + 2 + m])])
          [] tag = 7 ->
                LET base == at + 4 + 3 * count
                    KeyOf(m) == LET p == CHOOSE q \in 1..count : buf[at + 2 + count + q] = m
                                IN  dict[buf[at + 2 + p] + 1]
                IN  VObject([m \in 1..count |->
                        [k |-> KeyOf(m),
                         v |-> ReadValue(dict, buf, base + buf[at + 2 + 2 * count + m])]])

\* Variant::get(key) on an object value: the child's cell, 0 when absent
Get(dict, buf, at, key) ==
    LET count == buf[at + 2]
        id == DictId(dict, key)
        hits == {p \in 1..count : buf[at + 2 + p] = id}
        base == at + 4 + 3 * count
    IN  IF buf[at] # 7 \/ id < 0 \/ hits = {} THEN 0
        ELSE LET p == CHOOSE q \in hits : TRUE
                 m == buf[at + 2 + count + p]
             IN  base + buf[at + 2 + 2 * count + m]

\* Variant::get_index(i) on an array value: the child's cell, 0 when absent
GetIndex(buf, at, i) ==
    LET count == buf[at + 2]
    IN  IF buf[at] # 6 \/ i < 0 \/ i >= count THEN 0
        ELSE at + 4 + count + buf[at + 3 + i]

\* the value at cell at reads as J: its type, its length, each element through
\* get_index, each field through get, each scalar through its accessor
RECURSIVE ReadsAs(_, _, _, _)
ReadsAs(dict, buf, at, J) ==
    CASE J.t = "arr" ->
            /\ buf[at] = 6 /\ buf[at + 2] = Len(J.e)
            /\ \A n \in 1..Len(J.e) :
                  /\ GetIndex(buf, at, n - 1) # 0
                  /\ ReadsAs(dict, buf, GetIndex(buf, at, n - 1), J.e[n])
      [] J.t = "obj" ->
            /\ buf[at] = 7 /\ buf[at + 2] = Len(J.f)
            /\ \A n \in 1..Len(J.f) :
                  /\ Get(dict, buf, at, J.f[n].k) # 0
                  /\ ReadsAs(dict, buf, Get(dict, buf, at, J.f[n].k), J.f[n].v)
      [] OTHER -> ReadValue(dict, buf, at) = J

\* ------------------------------------------------------------ JSON documents
\* The text of a value: compact, object fields in the order listed.
RECURSIVE NatText(_)
NatText(n) == IF n < 10 THEN <<DigitChars[n + 1]>>
              ELSE NatText(n \div 10) \o <<DigitChars[(n % 10) + 1]>>

IntText(n) == IF n < 0 THEN <<"-">> \o NatText(0 - n) ELSE NatText(n)

WideText(d) == [k \in 1..Len(d) |-> DigitChars[d[k] + 1]]

FloatText(v) ==
    LET d == WideText(v.sig)
        sign == IF v.neg THEN <<"-">> ELSE <<>>
    IN  sign \o (IF v.exp < 0 /\ 0 - v.exp < Len(d)
                 THEN SubSeq(d, 1, Len(d) + v.exp) \o <<".">> \o SubSeq(d, Len(d) + v.exp + 1, Len(d))
                 ELSE d \o <<"e">> \o IntText(v.exp))

RECURSIVE Serialize(_), Join(_, _)
Join(parts, n) ==
    IF n > Len(parts) THEN <<>>
    ELSE (IF n > 1 THEN <<",">> ELSE <<>>) \o parts[n] \o Join(parts, n + 1)

Serialize(v) ==
    CASE v.t = "null" -> <<"n", "u", "l", "l">>
      [] v.t = "bool" -> IF v.b THEN <<"t", "r", "u", "e">> ELSE <<"f", "a", "l", "s", "e">>
      [] v.t = "int" -> (IF v.neg THEN <<"-">> ELSE <<>>) \o WideText(v.mag)
      [] v.t = "float" -> FloatText(v)
      [] v.t = "str" -> <<"\"">> \o v.s \o <<"\"">>
      [] v.t = "arr" -> <<"[">> \o Join([n \in 1..Len(v.e) |-> Serialize(v.e[n])], 1) \o <<"]">>
      [] v.t = "obj" ->
            <<"{">> \o Join([n \in 1..Len(v.f) |->
                        <<"\"">> \o v.f[n].k \o <<"\"", ":">> \o Serialize(v.f[n].v)], 1)
            \o <<"}">>

\* -------------------------------------------------------------------- inputs
RawAlphabet == {"[", "]", "{", "}", "\"", ",", " ", "-", "0", "1"}
RawTexts == UNION {[1..n -> RawAlphabet] : n \in 0..MaxRaw}

Scalars == {VNull, VBool(TRUE), VBool(FALSE), VInt(0), VInt(1), VInt(0 - 1), VInt(10),
            VFloat(FALSE, 15, 0 - 1), VFloat(TRUE, 1, 1), VString(<<>>), VString(<<"a">>)}
F(key, v) == [k |-> <<key>>, v |-> v]

\* containers holding a value of inner, alone and after a sibling
Wrap(inner) ==
    UNION {{VArray(<<x>>), VObject(<<F("a", x)>>),
            VArray(<<VNull, x>>), VObject(<<F("b", VInt(1)), F("a", x)>>)} : x \in inner}

RECURSIVE Nested(_)
Nested(d) == IF d = 0 THEN {VInt(1), VString(<<"b">>), VArray(<<>>), VObject(<<>>)}
             ELSE Wrap(Nested(d - 1))

\* documents whose containers go on after a nested one
Mixed == { VArray(<<VArray(<<VInt(1)>>), VInt(0)>>),
           VObject(<<F("a", VObject(<<F("b", VArray(<<VNull>>))>>)), F("b", VBool(TRUE))>>),
           VArray(<<VObject(<<F("a", VInt(1))>>), VObject(<<F("b", VFloat(FALSE, 1, 1))>>)>>),
           VObject(<<F("a", VArray(<<VInt(1), VInt(0), VInt(10), VInt(0 - 1)>>))>>) }

Documents == Scalars \cup Mixed \cup UNION {Nested(d) : d \in 0..MaxDepth}

\* further texts: white space, duplicate keys, number forms, literals cut
\* short, two documents in a row, and errors late in a document
SampleTexts ==
    { <<"[", "\"", "a", " ", "a", "\"", "]">>,
      <<" ", "[", " ", "1", " ", ",", " ", "0", " ", "]", " ">>,
      <<"{", "\"", "a", "\"", " ", ":", " ", "1", " ", ",", "\"", "b", "\"", ":", "[", "]", "}">>,
      <<"{", "\"", "a", "\"", ":", "1", ",", "\"", "a", "\"", ":", "0", "}">>,
      <<"{", "\"", "b", "\"", ":", "1", ",", "\"", "a", "\"", ":", "0", ",", "\"", "b", "\"", ":", "[", "]", "}">>,
      <<"[", "1", ",", "]">>, <<"[", "1", " ", "0", "]">>,
      <<"{", "\"", "a", "\"", ":", "1", ",", "}">>, <<"{", "\"", "a", "\"", "1", "}">>,
      <<"{", "\"", "a", "\"", ":", "}">>, <<"{", "\"", "a", "\"", ":", "1", "]">>,
      <<"1", ".", "5", "e", "1">>, <<"1", ".", "e", "1">>, <<"1", "e", "-">>, <<"0", ".", "0", "1">>,
      <<"1", "e", "1", "1", "1", "1">>, <<"1", "e", "-", "1", "1", "1", "1">>, <<"-", "0", ".", "0">>,
      <<"[", "]", "[", "]">>, <<"{", "}", " ", "{", "}">>, <<"1", "0", " ", "1", "0">>,
      <<"t", "r", "u", "e", "f", "a", "l", "s", "e">>, <<"n", "u", "l", "a">>,
      <<"[", "n", "u", "l", "l", ",", "t", "r", "u", "e", "]", "]">> }

Inputs == {[text |-> s, doc |-> <<>>] : s \in RawTexts \cup SampleTexts}
          \cup {[text |-> Serialize(J), doc |-> <<J>>] : J \in Documents}

\* ---------------------------------------------------------------------- state
VARIABLES
    text,            \* the bytes the caller has to hand over, in order
    doc,             \* <<J>> when text is the text of document J, else <<>>
    pos,             \* how many bytes of text have been handed over
    preserve_order,  \* serde_json built with feature preserve_order
    buffer,          \* JsonParser.buffer
    state,           \* JsonParser.state
    alive,           \* the JsonParser has not been consumed by finish
    builder,         \* the VariantBuilder: dictionary, root values, finished
    ops,             \* every call made on the builder and its sub-builders
    metadata_buf,    \* the metadata sink
    value_buf,       \* the value sink
    call,            \* the last call made: none, push, finish, json_to_variant
    result,          \* what it returned: none, Ok, ParseError, InvalidArgumentError
    failed,          \* some call so far returned an error
    built,           \* the builds made before on this metadata sink, in order:
                     \* the document, its value buffer, the end of its metadata
    failing,         \* the sinks whose write fails, of "metadata" and "value"
    io_failed        \* a write on a sink has failed

vars == <<text, doc, pos, preserve_order, buffer, state, alive, builder, ops,
          metadata_buf, value_buf, call, result, failed, built, failing, io_failed>>

\* the builder between two front-end calls: no sub-builder is open
Held(b) == [dict |-> b.dict, nroot |-> b.nroot, finished |-> b.finished]

\* the builder calls newOps made on builder bld writing to the two sinks
Drive(lenient, bld, meta, value, newOps) ==
    BuilderRun(lenient,
               [stack |-> <<>>, dict |-> bld.dict, nroot |-> bld.nroot,
                finished |-> bld.finished, value_out |-> value, meta_out |-> meta],
               newOps)

\* parser p after builder b has taken the calls that extend p.ops to ops2
Kept(p, ops2, b) ==
    [p EXCEPT !.ops = ops2, !.builder = Held(b),
              !.value_buf = b.value_out, !.metadata_buf = b.meta_out]

\* parser p after its builder is handed the calls that extend p.ops to ops2
Called(lenient, p, ops2) ==
    Kept(p, ops2, Drive(lenient, p.builder, p.metadata_buf, p.value_buf,
                        SubSeq(ops2, Len(p.ops) + 1, Len(ops2))))

\* encode_json_value(&mut builder, value_writer, &value) on parser p: the calls
\* it makes and what they write
Encoded(lenient, p, value) == Called(lenient, p, EncodeJsonValue(p.ops, value))

\* self.builder.finish()
BuilderFinished(lenient, p) == Called(lenient, p, Append(p.ops, RootFinish))

\* A JsonParser with the sinks it borrows: buffer, state, builder are its
\* fields; ops records the builder calls made; result is what the last call
\* returned.  JsonParser::new:
ParserNew(meta, value) ==
    [buffer |-> <<>>, state |-> "Parsing", builder |-> Held(BuilderNew), ops |-> <<>>,
     metadata_buf |-> meta, value_buf |-> value, result |-> "none"]

\* try_parse taking the end of input for a parse error
TryParseEofFails(po, lenient, p) ==
    LET r == FromSlice(po, p.buffer)
    IN  IF r.k = "ok"
        THEN [Encoded(lenient, p, r.v) EXCEPT !.buffer = <<>>, !.result = "Ok"]
        ELSE [p EXCEPT !.result = "ParseError"]

\* try_parse taking every parse error for missing input
TryParseAwaitsMore(po, lenient, p) ==
    LET r == FromSlice(po, p.buffer)
    IN  IF r.k = "ok"
        THEN [Encoded(lenient, p, r.v) EXCEPT !.buffer = <<>>, !.result = "Ok"]
        ELSE [p EXCEPT !.result = "Ok"]

\* try_parse leaving the encoded bytes in the buffer
TryParseKeepsBuffer(po, lenient, p) ==
    LET r == FromSlice(po, p.buffer)
    IN  IF r.k = "ok"
        THEN [Encoded(lenient, p, r.v) EXCEPT !.result = "Ok"]
        ELSE IF IsEof(r) THEN [p EXCEPT !.result = "Ok"]
        ELSE [p EXCEPT !.result = "ParseError"]

\* try_parse dropping the bytes that failed to parse
TryParseDropsBadBytes(po, lenient, p) ==
    LET r == FromSlice(po, p.buffer)
    IN  IF r.k = "ok"
        THEN [Encoded(lenient, p, r.v) EXCEPT !.buffer = <<>>, !.result = "Ok"]
        ELSE IF IsEof(r) THEN [p EXCEPT !.result = "Ok"]
        ELSE [p EXCEPT !.buffer = <<>>, !.result = "ParseError"]

\* the match in try_parse on what from_slice returned
TryParseMatch(lenient, p, r) ==
    IF r.k = "ok"
    THEN [Encoded(lenient, p, r.v) EXCEPT !.buffer = <<>>, !.result = "Ok"]
    ELSE IF IsEof(r) THEN [p EXCEPT !.result = "Ok"]
    ELSE [p EXCEPT !.result = "ParseError"]

\* JsonParser::try_parse
TryParse(po, lenient, p) == TryParseMatch(lenient, p, FromSlice(po, p.buffer))

\* push without the check of the state
PushOpUnchecked(po, lenient, p, data) ==
    TryParse(po, lenient, [p EXCEPT !.buffer = @ \o data])

\* JsonParser::push
PushOp(po, lenient, p, data) ==
    IF p.state = "Finished"
    THEN [p EXCEPT !.result = "InvalidArgumentError"]
    ELSE TryParse(po, lenient, [p EXCEPT !.buffer = @ \o data])

\* finish that never finishes the builder
FinishOpNotFinalised(po, lenient, p) ==
    LET q == [p EXCEPT !.state = "Finished"]
        r == FromSlice(po, q.buffer)
    IN  IF q.buffer # <<>> /\ r.k # "ok" THEN [q EXCEPT !.result = "ParseError"]
        ELSE [(IF q.buffer # <<>> THEN Encoded(lenient, q, r.v) ELSE q)
              EXCEPT !.result = "Ok"]

\* finish that finishes the builder before it returns the parse error
FinishOpFinalisesAnyway(po, lenient, p) ==
    LET q == [p EXCEPT !.state = "Finished"]
        r == FromSlice(po, q.buffer)
    IN  IF q.buffer # <<>> /\ r.k # "ok"
        THEN [BuilderFinished(lenient, q) EXCEPT !.result = "ParseError"]
        ELSE [BuilderFinished(lenient, IF q.buffer # <<>> THEN Encoded(lenient, q, r.v) ELSE q)
              EXCEPT !.result = "Ok"]

\* finish on parser q, already Finished, with r what from_slice returns for
\* its buffer
FinishMatch(lenient, q, r) ==
    IF q.buffer # <<>> /\ r.k # "ok" THEN [q EXCEPT !.result = "ParseError"]
    ELSE [BuilderFinished(lenient, IF q.buffer # <<>> THEN Encoded(lenient, q, r.v) ELSE q)
          EXCEPT !.result = "Ok"]

\* JsonParser::finish
FinishOp(po, lenient, p) ==
    LET q == [p EXCEPT !.state = "Finished"]
    IN  FinishMatch(lenient, q, FromSlice(po, q.buffer))

\* json_to_variant after from_slice returned json_value, on a new builder
JsonToVariantMatch(fresh, json_value) ==
    IF json_value.k # "ok" THEN [fresh EXCEPT !.result = "ParseError"]
    ELSE [BuilderFinished(FALSE, Encoded(FALSE, fresh, json_value.v))
          EXCEPT !.result = "Ok"]

\* json_to_variant: result, the builder calls made, the two sinks afterwards
JsonToVariantOp(po, json_data, meta, value) ==
    JsonToVariantMatch(ParserNew(meta, value), FromSlice(po, json_data))

\* the parser the variables hold, and the variables set from a parser
Self == [buffer |-> buffer, state |-> state, builder |-> builder, ops |-> ops,
         metadata_buf |-> metadata_buf, value_buf |-> value_buf, result |-> result]

\* What the sinks hold after a call that leaves parser p: a failing sink has
\* taken nothing.  Every builder call is a statement of its own in the
\* front-end (`builder.append_null(value_writer);`), so what the builder
\* returns for a failed write reaches no caller and the result is p's.
Written(p) ==
    /\ metadata_buf' = (IF "metadata" \in failing THEN metadata_buf ELSE p.metadata_buf)
    /\ value_buf' = (IF "value" \in failing THEN value_buf ELSE p.value_buf)
    /\ io_failed' = \/ io_failed
                    \/ ("metadata" \in failing /\ p.metadata_buf # metadata_buf)
                    \/ ("value" \in failing /\ p.value_buf # value_buf)
    /\ UNCHANGED failing

Becomes(p) ==
    /\ buffer' = p.buffer
    /\ state' = p.state
    /\ builder' = p.builder
    /\ ops' = p.ops
    /\ Written(p)
    /\ result' = p.result
    /\ failed' = (failed \/ p.result # "Ok")

\* what a call of json_to_variant that ends as done leaves behind
Returns(done) ==
    /\ ops' = done.ops
    /\ Written(done)
    /\ result' = done.result
    /\ failed' = (done.result # "Ok")

\* whether the root may be given a value it has to refuse or take
Choices == IF builder.nroot >= 1 THEN BOOLEAN ELSE {FALSE}

\* JsonParser::new on two empty sinks; nothing called yet
Init ==
    /\ \E in \in Inputs : text = in.text /\ doc = in.doc
    /\ pos = 0
    \* the map's order shows only with two keys: the shortest such text has 12 bytes
    /\ preserve_order \in (IF Len(text) >= 12 THEN BOOLEAN ELSE {FALSE})
    /\ alive = TRUE
    /\ call = "none"
    /\ failed = FALSE
    /\ built = <<>>
    /\ failing = {} /\ io_failed = FALSE
    /\ LET p == ParserNew(<<>>, <<>>)
       IN  /\ buffer = p.buffer
           /\ state = p.state
           /\ builder = p.builder
           /\ ops = p.ops
           /\ metadata_buf = p.metadata_buf
           /\ value_buf = p.value_buf
           /\ result = p.result

\* parser.push(data), data the next n bytes of text
Push ==
    /\ alive /\ call \in {"none", "push"}
    /\ \E n \in 0..(Len(text) - pos), lenient \in Choices :
          /\ Becomes(PushOp(preserve_order, lenient, Self, SubSeq(text, pos + 1, pos + n)))
          /\ pos' = pos + n
    /\ call' = "push"
    /\ UNCHANGED <<alive, preserve_order, text, doc, built>>

\* parser.finish(), which consumes the parser
Finish ==
    /\ alive /\ call \in {"none", "push"}
    /\ \E lenient \in Choices : Becomes(FinishOp(preserve_order, lenient, Self))
    /\ call' = "finish"
    /\ alive' = FALSE
    /\ UNCHANGED <<pos, preserve_order, text, doc, built>>

\* json_to_variant(text, &mut metadata_buf, &mut value_buf)
JsonToVariant ==
    /\ call = "none"
    /\ Returns(JsonToVariantOp(preserve_order, text, metadata_buf, value_buf))
    /\ call' = "json_to_variant"
    /\ pos' = Len(text)
    /\ UNCHANGED <<buffer, state, builder, alive, preserve_order, text, doc, built>>

Next == Push \/ Finish \/ JsonToVariant

Spec == Init /\ [][Next]_vars

\* finish takes the parser by value, so no caller can push on a parser that
\* finish has set to Finished.  This is that call made all the same, on the
\* parser as finish left it.
PushAfterFinish ==
    /\ ~alive /\ call \in {"finish", "push"}
    /\ \E n \in 0..(Len(text) - pos), lenient \in Choices :
          /\ Becomes(PushOp(preserve_order, lenient, Self, SubSeq(text, pos + 1, pos + n)))
          /\ pos' = pos + n
    /\ call' = "push"
    /\ UNCHANGED <<alive, preserve_order, text, doc, built>>

NextPush == Push \/ Finish \/ PushAfterFinish

\* sinks that may refuse what is written to them
SinkInputs == {in \in Inputs : in.doc # <<>> /\ Len(in.text) <= MaxRaw + 4}

InitSinks ==
    /\ \E in \in SinkInputs : text = in.text /\ doc = in.doc
    /\ pos = 0
    /\ preserve_order = FALSE
    /\ alive = TRUE /\ call = "none" /\ failed = FALSE /\ built = <<>>
    /\ failing \in SUBSET {"metadata", "value"} /\ io_failed = FALSE
    /\ LET p == ParserNew(<<>>, <<>>)
       IN  /\ buffer = p.buffer /\ state = p.state /\ builder = p.builder
           /\ ops = p.ops /\ metadata_buf = p.metadata_buf
           /\ value_buf = p.value_buf /\ result = p.result

SpecSinks == InitSinks /\ [][Next]_vars

SpecPush == Init /\ [][NextPush]_vars

\* integer literals: small ones, "-0", the extremes of i32 and i64 and their
\* neighbours, and integers past u64
Magnitudes ==
    { <<0>>, <<1>>, <<2, 1, 4, 7, 4, 8, 3, 6, 4, 7>>, <<2, 1, 4, 7, 4, 8, 3, 6, 4, 8>>,
      <<9, 2, 2, 3, 3, 7, 2, 0, 3, 6, 8, 5, 4, 7, 7, 5, 8, 0, 6>>,
      I64Max, I64MinMagnitude,
      <<9, 2, 2, 3, 3, 7, 2, 0, 3, 6, 8, 5, 4, 7, 7, 5, 8, 0, 9>>,
      U64Max }

Literals == {VIntWide(neg, mag) : neg \in BOOLEAN, mag \in Magnitudes}

\* a number at the root, as an array element and as an object field, alone,
\* after a sibling and nested
Placed(v) ==
    { v, VArray(<<v>>), VArray(<<VNull, v>>), VArray(<<VArray(<<v>>)>>),
      VObject(<<F("a", v)>>), VObject(<<F("a", VObject(<<F("b", v)>>))>>),
      VObject(<<F("a", VArray(<<v>>))>>), VArray(<<VObject(<<F("a", v)>>)>>) }

NumberInputs ==
    {[text |-> Serialize(J), doc |-> <<J>>] : J \in UNION {Placed(v) : v \in Literals}}

InitNumbers ==
    /\ \E in \in NumberInputs : text = in.text /\ doc = in.doc
    /\ pos = 0
    /\ preserve_order = FALSE
    /\ alive = TRUE /\ call = "none" /\ failed = FALSE /\ built = <<>>
    /\ failing = {} /\ io_failed = FALSE
    /\ LET p == ParserNew(<<>>, <<>>)
       IN  /\ buffer = p.buffer /\ state = p.state /\ builder = p.builder
           /\ ops = p.ops /\ metadata_buf = p.metadata_buf
           /\ value_buf = p.value_buf /\ result = p.result

\* parser.push(text): the whole text in one chunk
PushWhole ==
    /\ alive /\ call = "none"
    /\ Becomes(PushOp(preserve_order, FALSE, Self, text))
    /\ pos' = Len(text)
    /\ call' = "push"
    /\ UNCHANGED <<alive, preserve_order, text, doc, built>>

NextNumbers == JsonToVariant \/ PushWhole \/ Finish

SpecNumbers == InitNumbers /\ [][NextNumbers]_vars

\* number literals of every form: the integer literals above, an integer of
\* twenty digits (2^64), fractions, exponents, the largest power of ten a
\* double holds and the next one, and a power of ten below every double
FloatLiterals ==
    { VFloat(FALSE, 15, 0 - 1), VFloat(TRUE, 1, 1), VFloat(FALSE, 25, 0 - 2),
      VFloatWide(FALSE, <<1>>, 308), VFloatWide(FALSE, <<1>>, 309),
      VFloatWide(TRUE, <<1>>, 309), VFloatWide(FALSE, <<1>>, 0 - 400) }

NumberLiterals ==
    Literals
    \cup {VIntWide(neg, <<1, 8, 4, 4, 6, 7, 4, 4, 0, 7, 3, 7, 0, 9, 5, 5, 1, 6, 1, 6>>) :
               neg \in BOOLEAN}
    \cup FloatLiterals

ClassifyInputs ==
    {[text |-> Serialize(J), doc |-> <<J>>] : J \in UNION {Placed(v) : v \in NumberLiterals}}

InitClassify ==
    /\ \E in \in ClassifyInputs : text = in.text /\ doc = in.doc
    /\ pos = 0
    /\ preserve_order = FALSE
    /\ alive = TRUE /\ call = "none" /\ failed = FALSE /\ built = <<>>
    /\ failing = {} /\ io_failed = FALSE
    /\ LET p == ParserNew(<<>>, <<>>)
       IN  /\ buffer = p.buffer /\ state = p.state /\ builder = p.builder
           /\ ops = p.ops /\ metadata_buf = p.metadata_buf
           /\ value_buf = p.value_buf /\ result = p.result

SpecClassify == InitClassify /\ [][NextNumbers]_vars

\* objects with the same and with different keys, in both orders
SharedDocuments ==
    { VObject(<<F("a", VInt(1))>>), VObject(<<F("b", VInt(1))>>),
      VObject(<<F("a", VInt(1)), F("b", VInt(0))>>),
      VObject(<<F("b", VInt(1)), F("a", VInt(0))>>) }

SharedInputs == {[text |-> Serialize(J), doc |-> <<J>>] : J \in SharedDocuments}

InitShared ==
    /\ \E in \in SharedInputs : text = in.text /\ doc = in.doc
    /\ pos = 0
    /\ preserve_order \in BOOLEAN
    /\ alive = TRUE /\ call = "none" /\ failed = FALSE /\ built = <<>>
    /\ failing = {} /\ io_failed = FALSE
    /\ LET p == ParserNew(<<>>, <<>>)
       IN  /\ buffer = p.buffer /\ state = p.state /\ builder = p.builder
           /\ ops = p.ops /\ metadata_buf = p.metadata_buf
           /\ value_buf = p.value_buf /\ result = p.result

\* the caller, after a build of the whole document in which every call
\* returned Ok, makes a new parser (or calls json_to_variant next) with the same metadata sink and a
\* new value sink, for another document
NewParser ==
    /\ call \in {"finish", "json_to_variant"} /\ result = "Ok" /\ ~failed
    /\ pos = Len(text)
    /\ Len(built) < MaxBuilds
    /\ built' = Append(built, [doc |-> doc, value_buf |-> value_buf,
                               meta_end |-> Len(metadata_buf)])
    /\ \E in \in SharedInputs : text' = in.text /\ doc' = in.doc
    /\ pos' = 0 /\ alive' = TRUE /\ call' = "none" /\ failed' = FALSE
    /\ LET p == ParserNew(metadata_buf, <<>>)
       IN  /\ buffer' = p.buffer /\ state' = p.state /\ builder' = p.builder
           /\ ops' = p.ops /\ metadata_buf' = p.metadata_buf
           /\ value_buf' = p.value_buf /\ result' = p.result
    /\ UNCHANGED <<preserve_order, failing, io_failed>>

NextShared == Push \/ Finish \/ JsonToVariant \/ NewParser

SpecShared == InitShared /\ [][NextShared]_vars

\* ----------------------------------------------------------------- sessions
\* the bytes handed over so far
Pushed == SubSeq(text, 1, pos)

\* a whole session on fresh sinks: push every chunk in order, then finish
RECURSIVE PushAll(_, _, _, _)
PushAll(po, lenient, p, chunks) ==
    IF chunks = <<>> THEN p
    ELSE PushAll(po, lenient, PushOp(po, lenient, p, Head(chunks)), Tail(chunks))

Session(po, lenient, chunks) ==
    FinishOp(po, lenient, PushAll(po, lenient, ParserNew(<<>>, <<>>), chunks))

\* what a session leaves behind: finish's result and the two buffers
Outcome(p) == [result |-> p.result, metadata_buf |-> p.metadata_buf, value_buf |-> p.value_buf]

\* the calls made on the root builder that hand it a value
RootValues(log) == {n \in 1..Len(log) : log[n].h = 0 /\ log[n].op # "finish"}

\* ------------------------------------------------------------------- claims

\* C1: chunking invariance.  Once a session has finished, every session
\* that pushes the same bytes split in two at any place and then finishes ends
\* with the same result and the same metadata and value buffers.
ChunkingInvariance ==
    call = "finish" =>
        \A k \in 0..pos, lenient \in BOOLEAN :
            Outcome(Session(preserve_order, lenient,
                            <<SubSeq(Pushed, 1, k), SubSeq(Pushed, k + 1, pos)>>))
            = Outcome(Self)

\* C2: the root builder is handed exactly one value per session: never a
\* second one, and exactly one when finish has returned Ok.
OneRootValue ==
    /\ call # "json_to_variant" => Cardinality(RootValues(ops)) <= 1
    /\ (call = "finish" /\ result = "Ok") => Cardinality(RootValues(ops)) = 1

\* the bytes a push hands over in a step, and what the parser has accumulated
\* with them
Chunk == SubSeq(text, pos + 1, pos')
Accumulated == buffer \o Chunk

\* acc is not a document, and is the beginning of one: the parse ran out of
\* input, or some of the bytes still to come complete it
Incomplete(acc) ==
    \/ FromSlice(preserve_order, acc).k = "eof"
    \/ /\ FromSlice(preserve_order, acc).k # "ok"
       /\ \E n \in 1..(Len(text) - pos') :
             FromSlice(preserve_order, acc \o SubSeq(text, pos' + 1, pos' + n)).k = "ok"

\* C3: a push that leaves the accumulated bytes an incomplete document
\* returns Ok, makes no builder call, writes nothing, keeps the bytes and
\* stays in Parsing.
IncompleteIsNotAnError ==
    [][(call' = "push" /\ state = "Parsing" /\ Incomplete(Accumulated))
        => /\ result' = "Ok"
           /\ ops' = ops
           /\ state' = "Parsing"
           /\ buffer' = Accumulated
           /\ value_buf' = value_buf /\ metadata_buf' = metadata_buf]_vars

\* C3 witness: some bytes of a document have been pushed, push returned Ok and
\* the builder has not been called
IncompletePushed ==
    /\ call = "push" /\ result = "Ok" /\ state = "Parsing"
    /\ doc # <<>> /\ pos > 0 /\ pos < Len(text)
    /\ buffer = Pushed /\ ops = <<>>

\* C4: finish returns a Parse error whenever the bytes pushed in the
\* session are not one complete document.
TruncatedFailsAtFinish ==
    (call = "finish" /\ FromSlice(preserve_order, Pushed).k # "ok") => result = "ParseError"

FinishedIsConsumed == state = "Finished" => ~alive

\* C6: a push on a parser in state Finished returns an Invalid argument
\* error, leaves the buffer as it is, makes no builder call and writes nothing.
PushAfterFinishIsAnError ==
    [][(call' = "push" /\ state = "Finished")
        => /\ result' = "InvalidArgumentError"
           /\ buffer' = buffer
           /\ ops' = ops
           /\ state' = "Finished"
           /\ value_buf' = value_buf /\ metadata_buf' = metadata_buf]_vars

\* C6 witness: bytes were pushed on a finished parser
PushedAfterFinish ==
    call = "push" /\ state = "Finished" /\ pos > Len(buffer) /\ result = "InvalidArgumentError"

\* the calls of log from the n-th on keep to the scoping, open being the
\* handles of the unfinished sub-builders, innermost last: every call is made
\* on the innermost unfinished builder, and none is left unfinished
RECURSIVE ScopedFrom(_, _, _)
ScopedFrom(log, n, open) ==
    IF n > Len(log) THEN open = <<>>
    ELSE LET o == log[n]
             top == IF open = <<>> THEN 0 ELSE open[Len(open)]
         IN  /\ o.h = top
             /\ IF IsOpen(o) THEN ScopedFrom(log, n + 1, Append(open, o.ret))
                ELSE IF o.op = "finish" /\ o.h > 0
                THEN ScopedFrom(log, n + 1, SubSeq(open, 1, Len(open) - 1))
                ELSE ScopedFrom(log, n + 1, open)

\* C7: in the builder calls made, every new_array / new_object is
\* followed by exactly one finish on the handle it returned, opens and
\* finishes nest, and no call is made on a builder while a sub-builder of it
\* is unfinished.
ScopedSubBuilders ==
    /\ \A n \in 1..Len(ops) : IsOpen(ops[n]) =>
          /\ \A m \in 1..Len(ops) : (IsOpen(ops[m]) /\ ops[m].ret = ops[n].ret) => m = n
          /\ Cardinality({m \in 1..Len(ops) : ops[m].op = "finish" /\ ops[m].h = ops[n].ret}) = 1
          /\ \E m \in (n + 1)..Len(ops) : ops[m].op = "finish" /\ ops[m].h = ops[n].ret
    /\ ScopedFrom(ops, 1, <<>>)

\* C7 witness: a sub-builder was opened in a sub-builder, finished, and its
\* parent then took another value
NestedAndResumed ==
    \E n \in 1..Len(ops), m \in 1..Len(ops) :
        /\ IsOpen(ops[n]) /\ ops[n].h > 0
        /\ m > n + 1 /\ ops[m - 1].op = "finish" /\ ops[m - 1].h = ops[n].ret
        /\ IsAppend(ops[m]) /\ ops[m].h = ops[n].h

\* C8: the root builder is finished exactly once per build that
\* returns Ok, as the last builder call of all, with every sub-builder finished
\* before it.
FinalisedOnce ==
    /\ \A n \in 1..Len(ops) : ops[n] = RootFinish => n = Len(ops)
    /\ (call \in {"finish", "json_to_variant"} /\ result = "Ok") =>
          /\ Len(ops) >= 1 /\ ops[Len(ops)] = RootFinish
          /\ builder.finished \/ call = "json_to_variant"
          /\ \A n \in 1..Len(ops) : IsOpen(ops[n]) =>
                \E m \in (n + 1)..(Len(ops) - 1) : ops[m].op = "finish" /\ ops[m].h = ops[n].ret

\* C8 witness: a session of several pushes whose finish returned Ok after
\* nested values were built
FinalisedAfterValues ==
    /\ call = "finish" /\ result = "Ok" /\ Len(ops) >= 6
    /\ \E n \in 1..Len(ops) : IsOpen(ops[n]) /\ ops[n].h > 0

\* C9: after a conversion in which every call returned Ok, neither sink
\* is empty.
SinksNotEmpty ==
    (call \in {"finish", "json_to_variant"} /\ result = "Ok" /\ ~failed)
        => (metadata_buf # <<>> /\ value_buf # <<>>)

Builds ==
    IF call \in {"finish", "json_to_variant"} /\ result = "Ok" /\ ~failed /\ pos = Len(text)
    THEN Append(built, [doc |-> doc, value_buf |-> value_buf,
                        meta_end |-> Len(metadata_buf)])
    ELSE built

\* the dictionary the n-th build finalised
DictionaryOf(n) ==
    LET from == IF n = 1 THEN 0 ELSE Builds[n - 1].meta_end
    IN  IF Builds[n].meta_end = from THEN <<>>
        ELSE DictOf(SubSeq(metadata_buf, from + 1, Builds[n].meta_end))

\* C11: over the builds made one after another on one metadata sink, a
\* field name keeps the id it was first given, the dictionary never gets
\* shorter, and every value buffer written reads back as its document against
\* the metadata the sink holds.
DictionaryMonotonic ==
    /\ \A n \in 1..Len(Builds), m \in 1..Len(Builds) : n < m =>
          /\ Len(DictionaryOf(n)) <= Len(DictionaryOf(m))
          /\ \A k \in 1..Len(DictionaryOf(n)) : DictionaryOf(m)[k] = DictionaryOf(n)[k]
    /\ \A n \in 1..Len(Builds) :
          Builds[n].doc # <<>> =>
              ReadsAs(DictOf(metadata_buf), Builds[n].value_buf, 1, Builds[n].doc[1])

\* ----------------------------------------------------------------- numbers
\* the scalars of a document, in document order
RECURSIVE Leaves(_)
Leaves(J) ==
    CASE J.t = "arr" -> Flatten([n \in 1..Len(J.e) |-> Leaves(J.e[n])])
      [] J.t = "obj" -> Flatten([n \in 1..Len(J.f) |-> Leaves(J.f[n].v)])
      [] OTHER -> <<J>>

\* the values the append calls of a log carry, in the order of the calls
Appended(log) ==
    LET calls == SelectSeq(log, IsAppend)
    IN  [n \in 1..Len(calls) |-> calls[n].arg]

\* v is an integer literal whose value is in -2^63 .. 2^63 - 1
InI64Range(v) ==
    v.t = "int" /\ WideLeq(v.mag, IF v.neg THEN I64MinMagnitude ELSE I64Max)

\* the integer an integer literal stands for ("-0" stands for 0)
IntegerOf(v) == IF v.mag = <<0>> THEN VIntWide(FALSE, <<0>>) ELSE v

\* the whole document has been parsed and encoded by the call just made
WholeEncoded ==
    /\ call \in {"json_to_variant", "push"} /\ result = "Ok"
    /\ doc # <<>> /\ pos = Len(text)

\* C12: every integer literal of the document whose value is in
\* -2^63 .. 2^63 - 1 is handed to the builder in an append that carries that
\* integer, at the root, in arrays and in objects.
IntegersStayIntegers ==
    WholeEncoded =>
        /\ Len(Appended(ops)) = Len(Leaves(doc[1]))
        /\ \A n \in 1..Len(Leaves(doc[1])) :
              InI64Range(Leaves(doc[1])[n]) => Appended(ops)[n] = IntegerOf(Leaves(doc[1])[n])

\* the same of every integer literal in range but "-0"
IntegersButMinusZeroStayIntegers ==
    WholeEncoded =>
        /\ Len(Appended(ops)) = Len(Leaves(doc[1]))
        /\ \A n \in 1..Len(Leaves(doc[1])) :
              (InI64Range(Leaves(doc[1])[n]) /\ Leaves(doc[1])[n] # VIntWide(TRUE, <<0>>))
                  => Appended(ops)[n] = Leaves(doc[1])[n]

\* -------------------------------------------------------------- dictionary
\* the object keys of a document, at every level
RECURSIVE Keys(_)
Keys(J) ==
    CASE J.t = "arr" -> UNION {Keys(J.e[n]) : n \in 1..Len(J.e)}
      [] J.t = "obj" -> {J.f[n].k : n \in 1..Len(J.f)} \cup UNION {Keys(J.f[n].v) : n \in 1..Len(J.f)}
      [] OTHER -> {}

\* a build of the whole document has ended with every call returning Ok
Built ==
    /\ call \in {"finish", "json_to_variant"} /\ result = "Ok" /\ ~failed
    /\ doc # <<>> /\ pos = Len(text)

\* C13: after a build the dictionary of the metadata holds the object
\* keys of the document, all of them, each once, and nothing else; it is empty
\* for a document without fields.
DictionaryCoverage ==
    Built =>
        LET dict == DictOf(metadata_buf)
        IN  /\ {dict[n] : n \in 1..Len(dict)} = Keys(doc[1])
            /\ Len(dict) = Cardinality(Keys(doc[1]))

\* C13 witness: a build of an array of objects with different keys
KeysInsideArray ==
    /\ Built /\ call = "finish"
    /\ doc = <<VArray(<<VObject(<<F("a", VInt(1))>>), VObject(<<F("b", VFloat(FALSE, 1, 1))>>)>>)>>
    /\ Len(DictOf(metadata_buf)) = 2

\* ------------------------------------------------------------------- sinks
\* C14: a call during which a write on a sink failed returns an I/O
\* error, and no call returns Ok after a failed write.
SinkFailuresPropagate ==
    [][/\ (io_failed' /\ ~io_failed) => result' = "IoError"
       /\ io_failed' => result' # "Ok"]_vars

\* --------------------------------------------------------------- key order
\* the object keys of a document in the order of the text, an object's keys
\* before those of the values nested in its later fields
RECURSIVE KeysInOrder(_)
KeysInOrder(J) ==
    CASE J.t = "arr" -> Flatten([n \in 1..Len(J.e) |-> KeysInOrder(J.e[n])])
      [] J.t = "obj" -> Flatten([n \in 1..Len(J.f) |-> <<J.f[n].k>> \o KeysInOrder(J.f[n].v)])
      [] OTHER -> <<>>

\* the keys the calls of a log carry, in the order of the calls
KeysIssued(log) ==
    LET keyed == SelectSeq(log, LAMBDA o : o.key # <<>>)
    IN  [n \in 1..Len(keyed) |-> keyed[n].key[1]]

\* C15: the fields of every object are issued to its builder in the order
\* of the keys in the text, and the encoded object read field by field in its
\* stored order is the document.
KeyOrderPreserved ==
    Built =>
        /\ KeysIssued(ops) = KeysInOrder(doc[1])
        /\ ReadValue(DictOf(metadata_buf), value_buf, 1) = doc[1]

\* the same in a build with serde_json's feature preserve_order
KeyOrderPreservedIfMapOrdered ==
    (Built /\ preserve_order) =>
        /\ KeysIssued(ops) = KeysInOrder(doc[1])
        /\ ReadValue(DictOf(metadata_buf), value_buf, 1) = doc[1]

\* ------------------------------------------------------------------ arrays
\* the arrays of a document, an array before the arrays in it
RECURSIVE ArraysOf(_)
ArraysOf(J) ==
    CASE J.t = "arr" -> <<J>> \o Flatten([n \in 1..Len(J.e) |-> ArraysOf(J.e[n])])
      [] J.t = "obj" -> Flatten([n \in 1..Len(J.f) |-> ArraysOf(J.f[n].v)])
      [] OTHER -> <<>>

\* call o issues value v: an append carrying it, or the open of its kind
IssuedFor(o, v) ==
    CASE v.t = "arr" -> o.op = "new_array"
      [] v.t = "obj" -> o.op = "new_object"
      [] OTHER -> IsAppend(o) /\ o.arg = v

\* C16: for every array of the document, the calls made on its builder
\* before its finish are as many as its elements, the i-th issues the i-th
\* element, an empty array is opened and finished at once, and get_index(i) of
\* the encoded array is the i-th element.
ArrayOrderAndCount ==
    (Built /\ ArraysOf(doc[1]) # <<>>) =>
        LET arrays == ArraysOf(doc[1])
            opens == SelectSeq(ops, LAMBDA o : o.op = "new_array")
        IN  /\ Len(opens) = Len(arrays)
            /\ \A k \in 1..Len(arrays) :
                  LET r == opens[k].ret
                      at == CHOOSE n \in 1..Len(ops) : ops[n] = opens[k]
                      kids == SelectSeq(ops, LAMBDA o : o.h = r /\ o.op # "finish")
                  IN  /\ Len(kids) = Len(arrays[k].e)
                      /\ \A i \in 1..Len(kids) : IssuedFor(kids[i], arrays[k].e[i])
                      /\ arrays[k].e = <<>> => (ops[at + 1].op = "finish" /\ ops[at + 1].h = r)
            /\ ReadsAs(DictOf(metadata_buf), value_buf, 1, doc[1])

\* C16 witness: an array of four numbers in an object has been built
FourElements ==
    /\ Built /\ call = "finish"
    /\ doc = <<VObject(<<F("a", VArray(<<VInt(1), VInt(0), VInt(10), VInt(0 - 1)>>))>>)>>
    /\ Cardinality({n \in 1..Len(ops) : IsAppend(ops[n])}) = 4

\* ----------------------------------------------------- parse before encode
\* the step makes no builder call and leaves both sinks as they were
NothingEncoded ==
    ops' = ops /\ value_buf' = value_buf /\ metadata_buf' = metadata_buf

\* C17: a call whose parse does not succeed makes no builder call and
\* writes nothing: json_to_variant returning a Parse error, a push of bytes that
\* do not yet or do not at all parse, and finish returning a Parse error.
ParsingPrecedesEncoding ==
    [][/\ (call' = "json_to_variant" /\ result' = "ParseError") => NothingEncoded
       /\ (call' = "push" /\ state = "Parsing"
            /\ FromSlice(preserve_order, Accumulated).k # "ok") => NothingEncoded
       /\ (call' = "finish" /\ result' = "ParseError") => NothingEncoded]_vars

\* C17 witness: finish returned a Parse error in a session that had
\* encoded a value before, and left what was written
ParseFailedAfterWrite ==
    /\ call = "finish" /\ result = "ParseError"
    /\ Len(ops) = 1 /\ value_buf # <<>> /\ metadata_buf = <<>> /\ buffer # <<>>

\* ------------------------------------------------------------------ buffer
\* C18: while no call has returned an error, a push that completes a
\* document (it makes builder calls) leaves the buffer empty, any other push
\* leaves the buffer with the chunk appended, and the buffer is the last
\* bytes pushed, in order.
BufferInvariant ==
    [][(call' = "push" /\ state = "Parsing" /\ ~failed')
        => /\ ops' # ops => buffer' = <<>>
           /\ ops' = ops => buffer' = buffer \o Chunk
           /\ buffer' = SubSeq(text, pos' - Len(buffer') + 1, pos')]_vars

\* C18 witness: bytes pushed after a push that completed a document are
\* in the buffer, and only they
BufferedSinceCompletion ==
    /\ call = "push" /\ ~failed /\ state = "Parsing"
    /\ ops # <<>> /\ Len(buffer) >= 2 /\ Len(buffer) < pos
    /\ buffer = SubSeq(text, pos - Len(buffer) + 1, pos)

\* the one-shot conversion of the bytes pushed in the session, on fresh sinks
OneShot == JsonToVariantOp(preserve_order, Pushed, <<>>, <<>>)

\* C19: a session succeeds (every push and the finish return Ok) exactly
\* when json_to_variant succeeds on the bytes pushed, and then the two leave
\* the same metadata and value buffers.
StreamingAgreesWithOneShot ==
    call = "finish" =>
        /\ (~failed) <=> (OneShot.result = "Ok")
        /\ (~failed /\ OneShot.result = "Ok") =>
              /\ metadata_buf = OneShot.metadata_buf
              /\ value_buf = OneShot.value_buf

IsNumber(v) == v.t \in {"int", "float"}

\* the call just made was handed the whole text of the document
WholeHanded ==
    /\ call \in {"json_to_variant", "push"}
    /\ doc # <<>> /\ pos = Len(text)

\* the numbers of the document are issued by their class: an integer append
\* for an integer literal in -2^63 .. 2^63 - 1, a float append for any other
Classified(leaves, args) ==
    /\ Len(args) = Len(leaves)
    /\ \A n \in 1..Len(leaves) :
          IsNumber(leaves[n]) =>
              /\ IsNumber(args[n])
              /\ args[n].t = "int" <=> InI64Range(leaves[n])

\* C21: whatever numbers a document holds, the call handed its text returns
\* Ok, and each number is issued as an integer append exactly when it is an
\* integer literal in -2^63 .. 2^63 - 1 and as a float append otherwise.
NumberClassificationTotal ==
    WholeHanded => (result = "Ok" /\ Classified(Leaves(doc[1]), Appended(ops)))

\* v is the literal "-0"
IsMinusZero(v) == v = VIntWide(TRUE, <<0>>)

\* v is a literal whose magnitude is beyond every double: 10^309 and above
BeyondF64(v) == v.t = "float" /\ v.sig # <<0>> /\ v.exp + Len(v.sig) - 1 > 308

\* the same of the documents that hold neither "-0" nor a number beyond the
\* doubles
NumberClassificationButMinusZeroAndRange ==
    (WholeHanded /\ \A n \in 1..Len(Leaves(doc[1])) :
                        ~IsMinusZero(Leaves(doc[1])[n]) /\ ~BeyondF64(Leaves(doc[1])[n]))
        => (result = "Ok" /\ Classified(Leaves(doc[1]), Appended(ops)))

\* a number beyond the doubles is a parse error of the call, and nothing is
\* issued for the document
BeyondF64IsParseError ==
    (WholeHanded /\ \E n \in 1..Len(Leaves(doc[1])) : BeyondF64(Leaves(doc[1])[n]))
        => (result = "ParseError" /\ ops = <<>>)

\* an integer literal past 2^63 - 1 has been issued as a float append
IntegerPastI64IssuedAsFloat ==
    /\ WholeHanded /\ result = "Ok"
    /\ \E n \in 1..Len(Leaves(doc[1])) :
          /\ Leaves(doc[1])[n].t = "int" /\ ~InI64Range(Leaves(doc[1])[n])
          /\ Appended(ops)[n].t = "float"

====
